---- MODULE Spec2Model ----
(***************************************************************************)
(* Model of www/index.js: the keyboard-to-game input bridge and its        *)
(* animation-frame render loop.                                            *)
(*                                                                         *)
(* The script runs on the single UI thread of the page.  The module body   *)
(* (lines 3-61) runs to completion first; afterwards the host dispatches   *)
(* keydown / keyup events and animation-frame callbacks one at a time.     *)
(* `pc` is the position of that single thread: a line of the module body,  *)
(* a line of drawOneFrame, or "idle" when the JavaScript stack is empty.   *)
(***************************************************************************)
EXTENDS Naturals, Sequences, FiniteSets

VARIABLES
    pc,         \* position of the UI thread
    heap,       \* the InputState objects allocated so far (object literals)
    curInput,   \* the binding `curInput`: an index into heap, 0 = not yet bound
    listeners,  \* event types with a listener registered on document
    body,       \* children appended to document.body, in order
    innerText,  \* output.innerText
    nGames,     \* number of calls of wasm.make_game so far
    game,       \* the binding `game`: a handle id, 0 = not yet bound
    pending,    \* animation-frame callbacks requested and not yet fired
    result,     \* the local `result` of the current / most recent drawOneFrame
    drawCall,   \* receiver and arguments of the most recent game.draw call
    last,       \* history: the callback that ran most recently, with the
                \* InputState and the status text it found
    stack,      \* the call stack of the UI thread: the callbacks that have
                \* been entered and have not returned
    lastEvent   \* history: per arrow key, the type of the most recent
                \* event handled with that key

vars == <<pc, heap, curInput, listeners, body, innerText, nGames, game,
          pending, result, drawCall, last, stack, lastEvent>>

----------------------------------------------------------------------------
(* Bounds *)

\* Capacity of the host's animation-frame callback list in the model.
MaxPending == 3

----------------------------------------------------------------------------
(* Values *)

ArrowKeys == {"ArrowUp", "ArrowDown", "ArrowLeft", "ArrowRight"}

\* KeyboardEvent.key values the host may deliver that the switch does not
\* list: a printable key, a named key, the legacy name of an arrow key and
\* an arrow key's name in another letter case.
OtherKeys == {"a", "Enter", "Up", "arrowup"}

Keys == ArrowKeys \cup OtherKeys

\* Values game.draw may return: null, or an opaque result.  The result is
\* never inspected beyond the null test, so two results stand for all of
\* them: one that is falsy in JavaScript (such as 0) and one that is truthy.
NULL == "null"
FALSY == "0"
DrawResults == {NULL, FALSY, "result"}

\* No value: a binding or local that has not been initialised yet.
None == "none"

NoCall == [this |-> 0, args |-> <<>>]

Fields == {"up", "down", "left", "right"}

\* The object literal of lines 3-8.
NewInput == [up |-> FALSE, down |-> FALSE, left |-> FALSE, right |-> FALSE]

\* The InputState record the binding curInput refers to.
InputState == heap[curInput]

\* The call stack after the callback on top of it has returned.
Pop(s) == SubSeq(s, 1, Len(s) - 1)

\* The history of events per arrow key after an event of `type` with `key`.
Record(events, type, key) ==
    IF key \in ArrowKeys THEN [events EXCEPT ![key] = type] ELSE events

----------------------------------------------------------------------------
(* Key event handlers *)

\* A keydown switch whose ArrowLeft case assigns the field of ArrowRight.
KeyDownSwitch_wrongField(input, key) ==
    CASE key = "ArrowUp"    -> [input EXCEPT !.up = TRUE]
      [] key = "ArrowDown"  -> [input EXCEPT !.down = TRUE]
      [] key = "ArrowLeft"  -> [input EXCEPT !.right = TRUE]
      [] key = "ArrowRight" -> [input EXCEPT !.right = TRUE]
      [] OTHER              -> input

\* A keydown switch with a default case that presses every direction.
KeyDownSwitch_default(input, key) ==
    CASE key = "ArrowUp"    -> [input EXCEPT !.up = TRUE]
      [] key = "ArrowDown"  -> [input EXCEPT !.down = TRUE]
      [] key = "ArrowLeft"  -> [input EXCEPT !.left = TRUE]
      [] key = "ArrowRight" -> [input EXCEPT !.right = TRUE]
      [] OTHER              -> [f \in DOMAIN input |-> TRUE]

\* A keydown switch that flips the field instead of setting it.
KeyDownSwitch_toggle(input, key) ==
    CASE key = "ArrowUp"    -> [input EXCEPT !.up = ~input.up]
      [] key = "ArrowDown"  -> [input EXCEPT !.down = ~input.down]
      [] key = "ArrowLeft"  -> [input EXCEPT !.left = ~input.left]
      [] key = "ArrowRight" -> [input EXCEPT !.right = ~input.right]
      [] OTHER              -> input

\* switch (ev.key) of the keydown listener, as a function of the record.
KeyDownSwitch(input, key) ==
    CASE key = "ArrowUp"    -> [input EXCEPT !.up = TRUE]
      [] key = "ArrowDown"  -> [input EXCEPT !.down = TRUE]
      [] key = "ArrowLeft"  -> [input EXCEPT !.left = TRUE]
      [] key = "ArrowRight" -> [input EXCEPT !.right = TRUE]
      [] OTHER              -> input

\* A keyup switch whose ArrowDown case lacks its break and falls through
\* into the ArrowLeft case.
KeyUpSwitch_fallThrough(input, key) ==
    CASE key = "ArrowUp"    -> [input EXCEPT !.up = FALSE]
      [] key = "ArrowDown"  -> [input EXCEPT !.down = FALSE, !.left = FALSE]
      [] key = "ArrowLeft"  -> [input EXCEPT !.left = FALSE]
      [] key = "ArrowRight" -> [input EXCEPT !.right = FALSE]
      [] OTHER              -> input

\* A keyup switch without the ArrowRight case.
KeyUpSwitch_noRight(input, key) ==
    CASE key = "ArrowUp"    -> [input EXCEPT !.up = FALSE]
      [] key = "ArrowDown"  -> [input EXCEPT !.down = FALSE]
      [] key = "ArrowLeft"  -> [input EXCEPT !.left = FALSE]
      [] OTHER              -> input

\* switch (ev.key) of the keyup listener.
KeyUpSwitch(input, key) ==
    CASE key = "ArrowUp"    -> [input EXCEPT !.up = FALSE]
      [] key = "ArrowDown"  -> [input EXCEPT !.down = FALSE]
      [] key = "ArrowLeft"  -> [input EXCEPT !.left = FALSE]
      [] key = "ArrowRight" -> [input EXCEPT !.right = FALSE]
      [] OTHER              -> input

\* The effect of the keydown listener on the heap: it assigns a field of
\* the object `curInput` refers to, in place.
KeyDownHeap(h, ref, key) == [h EXCEPT ![ref] = KeyDownSwitch(h[ref], key)]

KeyUpHeap(h, ref, key) == [h EXCEPT ![ref] = KeyUpSwitch(h[ref], key)]

\* A keydown listener that also requests an animation frame, to redraw at
\* once.
KeyDown_redraw(key) ==
    /\ pc = "idle"
    /\ "keydown" \in listeners
    /\ pending < MaxPending
    /\ heap' = KeyDownHeap(heap, curInput, key)
    /\ pending' = pending + 1
    /\ last' = [type |-> "keydown", key |-> key,
                before |-> InputState, text |-> innerText]
    /\ lastEvent' = Record(lastEvent, "keydown", key)
    /\ UNCHANGED <<pc, curInput, listeners, body, innerText, nGames, game,
                   result, drawCall, stack>>

\* The host dispatches a keydown event with ev.key = key.
KeyDown(key) ==
    /\ pc = "idle"
    /\ "keydown" \in listeners
    /\ heap' = KeyDownHeap(heap, curInput, key)
    /\ last' = [type |-> "keydown", key |-> key,
                before |-> InputState, text |-> innerText]
    /\ lastEvent' = Record(lastEvent, "keydown", key)
    /\ UNCHANGED <<pc, curInput, listeners, body, innerText, nGames, game,
                   pending, result, drawCall, stack>>

\* The host dispatches a keyup event with ev.key = key.
KeyUp(key) ==
    /\ pc = "idle"
    /\ "keyup" \in listeners
    /\ heap' = KeyUpHeap(heap, curInput, key)
    /\ last' = [type |-> "keyup", key |-> key,
                before |-> InputState, text |-> innerText]
    /\ lastEvent' = Record(lastEvent, "keyup", key)
    /\ UNCHANGED <<pc, curInput, listeners, body, innerText, nGames, game,
                   pending, result, drawCall, stack>>

----------------------------------------------------------------------------
(* Render loop *)

\* A null test written as a truthiness test, !result.
IsNull_falsy(r) == r \in {NULL, FALSY}

\* A null test written as result === undefined.
IsNull_undefinedOnly(r) == r = "undefined"

\* result == null
IsNull(r) == r = NULL

\* A success branch that displays the result itself.
StatusFor_showsResult(r) == IF IsNull(r) THEN "Failed to draw!" ELSE r

\* The text drawOneFrame assigns to output.innerText for a draw result.
StatusFor(r) == IF IsNull(r) THEN "Failed to draw!" ELSE "All is well."

\* The handle drawOneFrame calls draw on.
DrawReceiver(g) == g

\* The flags passed with left and right in each other's place.
DrawArgs_swapped(input) == <<input.up, input.down, input.right, input.left>>

\* The flags as they were when the record was created, not as they are now.
DrawArgs_initial(input) == <<FALSE, FALSE, FALSE, FALSE>>

\* The arguments drawOneFrame passes to game.draw.
DrawArgs(input) == <<input.up, input.down, input.left, input.right>>

\* requestAnimationFrame placed inside the else branch: no re-scheduling
\* after a null result.
Reschedules_onSuccessOnly(r) == IF IsNull(r) THEN 0 ELSE 1

\* drawOneFrame without its requestAnimationFrame call.
Reschedules_never(r) == 0

\* Number of requestAnimationFrame calls at the end of drawOneFrame.
Reschedules(r) == 1

\* drawOneFrame calling wasm.make_game().draw(...): a new game every frame.
DrawOneFrame_draw_newGame ==
    /\ pc = "idle"
    /\ pending > 0
    /\ pending' = pending - 1
    /\ \E r \in DrawResults : result' = r
    /\ nGames' = nGames + 1
    /\ drawCall' = [this |-> nGames + 1, args |-> DrawArgs(InputState)]
    /\ last' = [type |-> "frame", key |-> None,
                before |-> InputState, text |-> innerText]
    /\ stack' = Append(stack, "drawOneFrame")
    /\ pc' = "l54"
    /\ UNCHANGED <<heap, curInput, listeners, body, innerText, game,
                   lastEvent>>

\* The host fires a pending animation-frame callback; drawOneFrame calls
\* game.draw with the current flags and binds the outcome to `result`.
DrawOneFrame_draw ==
    /\ pc = "idle"
    /\ pending > 0
    /\ pending' = pending - 1
    /\ \E r \in DrawResults : result' = r
    /\ drawCall' = [this |-> DrawReceiver(game), args |-> DrawArgs(InputState)]
    /\ last' = [type |-> "frame", key |-> None,
                before |-> InputState, text |-> innerText]
    /\ stack' = Append(stack, "drawOneFrame")
    /\ pc' = "l54"
    /\ UNCHANGED <<heap, curInput, listeners, body, innerText, nGames, game,
                   lastEvent>>

\* A status update that keeps the failure text once it has been set.
DrawOneFrame_status_sticky ==
    /\ pc = "l54"
    /\ innerText' = IF innerText = "Failed to draw!" THEN innerText
                    ELSE StatusFor(result)
    /\ pc' = "l59"
    /\ UNCHANGED <<heap, curInput, listeners, body, nGames, game, pending,
                   result, drawCall, last,
                   stack, lastEvent>>

\* if (result == null) ... else ...
DrawOneFrame_status ==
    /\ pc = "l54"
    /\ innerText' = StatusFor(result)
    /\ pc' = "l59"
    /\ UNCHANGED <<heap, curInput, listeners, body, nGames, game, pending,
                   result, drawCall, last,
                   stack, lastEvent>>

\* Line 59 written as a direct call, drawOneFrame(): the next invocation is
\* entered while this one is still on the stack.
DrawOneFrame_raf_recursive ==
    /\ pc = "l59"
    /\ Len(stack) < MaxPending
    /\ \E r \in DrawResults : result' = r
    /\ drawCall' = [this |-> DrawReceiver(game), args |-> DrawArgs(InputState)]
    /\ last' = [type |-> "frame", key |-> None,
                before |-> InputState, text |-> innerText]
    /\ stack' = Append(stack, "drawOneFrame")
    /\ pc' = "l54"
    /\ UNCHANGED <<heap, curInput, listeners, body, innerText, nGames, game,
                   pending, lastEvent>>

\* requestAnimationFrame(drawOneFrame); the callback returns.
DrawOneFrame_raf ==
    /\ pc = "l59"
    /\ pending + Reschedules(result) <= MaxPending
    /\ pending' = pending + Reschedules(result)
    /\ stack' = Pop(stack)
    /\ pc' = "idle"
    /\ UNCHANGED <<heap, curInput, listeners, body, innerText, nGames, game,
                   result, drawCall, last, lastEvent>>

DrawOneFrame == DrawOneFrame_draw \/ DrawOneFrame_status \/ DrawOneFrame_raf

----------------------------------------------------------------------------
(* Module body *)

\* const curInput = { up: false, ... }
Startup_curInput ==
    /\ pc = "l3"
    /\ heap' = Append(heap, NewInput)
    /\ curInput' = Len(heap) + 1
    /\ pc' = "l10"
    /\ UNCHANGED <<listeners, body, innerText, nGames, game, pending, result,
                   drawCall, last,
                   stack, lastEvent>>

\* document.addEventListener('keydown', ...)
Startup_keydown ==
    /\ pc = "l10"
    /\ listeners' = listeners \cup {"keydown"}
    /\ pc' = "l26"
    /\ UNCHANGED <<heap, curInput, body, innerText, nGames, game, pending,
                   result, drawCall, last,
                   stack, lastEvent>>

\* document.addEventListener('keyup', ...)
Startup_keyup ==
    /\ pc = "l26"
    /\ listeners' = listeners \cup {"keyup"}
    /\ pc' = "l43"
    /\ UNCHANGED <<heap, curInput, body, innerText, nGames, game, pending,
                   result, drawCall, last,
                   stack, lastEvent>>

\* const output = document.createElement('div'); body.appendChild(output)
Startup_output ==
    /\ pc = "l43"
    /\ body' = Append(body, [tag |-> "div", id |-> ""])
    /\ innerText' = ""
    /\ pc' = "l46"
    /\ UNCHANGED <<heap, curInput, listeners, nGames, game, pending, result,
                   drawCall, last,
                   stack, lastEvent>>

\* The canvas created and named but never appended to the body.
Startup_canvas_noAppend ==
    /\ pc = "l46"
    /\ pc' = "l50"
    /\ UNCHANGED <<heap, curInput, listeners, body, innerText, nGames, game,
                   pending, result, drawCall, last, stack, lastEvent>>

\* const canvas = ...; canvas.id = 'canvas'; body.appendChild(canvas)
Startup_canvas ==
    /\ pc = "l46"
    /\ body' = Append(body, [tag |-> "canvas", id |-> "canvas"])
    /\ pc' = "l50"
    /\ UNCHANGED <<heap, curInput, listeners, innerText, nGames, game,
                   pending, result, drawCall, last,
                   stack, lastEvent>>

\* const game = wasm.make_game(): every call returns a fresh handle.
Startup_make_game ==
    /\ pc = "l50"
    /\ nGames' = nGames + 1
    /\ game' = nGames + 1
    /\ pc' = "l61"
    /\ UNCHANGED <<heap, curInput, listeners, body, innerText, pending,
                   result, drawCall, last,
                   stack, lastEvent>>

\* requestAnimationFrame(drawOneFrame); the module body ends.
Startup_raf ==
    /\ pc = "l61"
    /\ pending' = pending + 1
    /\ stack' = Pop(stack)
    /\ pc' = "idle"
    /\ UNCHANGED <<heap, curInput, listeners, body, innerText, nGames, game,
                   result, drawCall, last, lastEvent>>

Startup ==
    \/ Startup_curInput
    \/ Startup_keydown
    \/ Startup_keyup
    \/ Startup_output
    \/ Startup_canvas
    \/ Startup_make_game
    \/ Startup_raf

----------------------------------------------------------------------------
(* Specification *)

Init ==
    /\ pc = "l3"
    /\ heap = <<>>
    /\ curInput = 0
    /\ listeners = {}
    /\ body = <<>>
    /\ innerText = ""
    /\ nGames = 0
    /\ game = 0
    /\ pending = 0
    /\ result = None
    /\ drawCall = NoCall
    /\ last = [type |-> "startup", key |-> None,
               before |-> NewInput, text |-> ""]
    /\ stack = <<"module">>
    /\ lastEvent = [key \in ArrowKeys |-> None]

Next ==
    \/ Startup
    \/ \E key \in Keys : KeyDown(key)
    \/ \E key \in Keys : KeyUp(key)
    \/ DrawOneFrame

Spec == Init /\ [][Next]_vars

\* The host eventually runs the module body to its end and eventually fires
\* every pending animation-frame callback; key events carry no fairness.
LiveSpec == Spec /\ WF_vars(Startup) /\ WF_vars(DrawOneFrame)

TypeOK ==
    /\ pc \in {"l3", "l10", "l26", "l43", "l46", "l50", "l61", "idle",
               "l54", "l59"}
    /\ heap \in Seq([Fields -> BOOLEAN])
    /\ curInput \in 0..Len(heap)
    /\ listeners \subseteq {"keydown", "keyup"}
    /\ innerText \in {"", "All is well.", "Failed to draw!"}
    /\ nGames \in Nat
    /\ game \in 0..nGames
    /\ pending \in 0..MaxPending
    /\ result \in DrawResults \cup {None}
    /\ stack \in Seq({"module", "drawOneFrame"})
    /\ lastEvent \in [ArrowKeys -> {None, "keydown", "keyup"}]
----------------------------------------------------------------------------
(* Properties *)

\* The InputState field an arrow key stands for.
FieldOf(key) ==
    CASE key = "ArrowUp"    -> "up"
      [] key = "ArrowDown"  -> "down"
      [] key = "ArrowLeft"  -> "left"
      [] key = "ArrowRight" -> "right"

\* The position of an arrow key's flag among the arguments of game.draw.
ArgOf(key) ==
    CASE key = "ArrowUp"    -> 1
      [] key = "ArrowDown"  -> 2
      [] key = "ArrowLeft"  -> 3
      [] key = "ArrowRight" -> 4

\* The most recent callback was the handler of `type` for `key`.
Handled(type, key) == last.type = type /\ last.key = key

\* C1: after the keydown handler ran with an arrow key, whatever the
\* InputState it found, the key's field is true and the other three fields
\* have the values the handler found.
C1_KeyDownSetsField ==
    \A key \in ArrowKeys :
        Handled("keydown", key) =>
            /\ InputState[FieldOf(key)] = TRUE
            /\ \A f \in Fields \ {FieldOf(key)} :
                   InputState[f] = last.before[f]

\* A keydown of ArrowLeft was handled while left was false, with one of the
\* other fields true and another false.
C1_Witness ==
    /\ pc = "idle"
    /\ Handled("keydown", "ArrowLeft")
    /\ last.before.left = FALSE
    /\ InputState.left = TRUE
    /\ last.before.up = TRUE
    /\ last.before.right = FALSE

\* C2: after the keyup handler ran with an arrow key whose field an earlier
\* keydown had made true, that field is false and the other three fields
\* have the values the handler found.
C2_KeyUpClearsField ==
    \A key \in ArrowKeys :
        (Handled("keyup", key) /\ last.before[FieldOf(key)] = TRUE) =>
            /\ InputState[FieldOf(key)] = FALSE
            /\ \A f \in Fields \ {FieldOf(key)} :
                   InputState[f] = last.before[f]

\* A keyup of ArrowDown was handled while down and left were both true.
C2_Witness ==
    /\ pc = "idle"
    /\ Handled("keyup", "ArrowDown")
    /\ last.before.down = TRUE
    /\ last.before.left = TRUE
    /\ InputState.down = FALSE

\* C3: a keydown or keyup handler that runs with a key other than the four
\* arrow keys changes no InputState field and ends normally: the step
\* changes nothing of the program's state and leaves the thread idle.
C3_OtherKeysIgnored ==
    [][(last'.type \in {"keydown", "keyup"} /\ last'.key \notin ArrowKeys) =>
           /\ InputState' = InputState
           /\ last'.before = InputState
           /\ pc' = "idle"
           /\ UNCHANGED <<heap, curInput, listeners, body, innerText, nGames,
                          game, pending, result, drawCall,
                   stack, lastEvent>>]_vars

\* A keydown of the legacy key name "Up" was handled while some field was
\* true and another false, and the InputState is as the handler found it.
C3_Witness ==
    /\ pc = "idle"
    /\ Handled("keydown", "Up")
    /\ last.before.up = FALSE
    /\ last.before.down = TRUE
    /\ InputState = last.before
\* An invocation of drawOneFrame has assigned the status text: the thread is
\* at the requestAnimationFrame call of line 59, or idle after a frame.
StatusAssigned == pc = "l59" \/ (pc = "idle" /\ result # None)

\* C4: the step that invokes drawOneFrame passes to game.draw the values of
\* InputState.up, .down, .left, .right of that moment, in that order, and
\* leaves InputState as it is; no other step (a key event handled after the
\* frame) changes what was passed.
C4_DrawGetsCurrentInput ==
    [][/\ (pc = "idle" /\ pc' = "l54") =>
              /\ drawCall'.args = <<InputState.up, InputState.down,
                                    InputState.left, InputState.right>>
              /\ InputState' = InputState
       /\ (pc' # "l54") => drawCall' = drawCall]_vars

\* draw was just called while down and left were held and up and right
\* were not, after key events of both kinds.
C4_Witness ==
    /\ pc = "l54"
    /\ InputState = [up |-> FALSE, down |-> TRUE, left |-> TRUE,
                     right |-> FALSE]
    /\ drawCall.args = <<FALSE, TRUE, TRUE, FALSE>>
    /\ innerText # ""

\* C5: when an invocation of drawOneFrame got a non-null result from
\* game.draw, the status text at the end of the invocation (and until the
\* next one) is "All is well.", whatever it was before.
C5_SuccessStatus ==
    (StatusAssigned /\ result # NULL) => innerText = "All is well."

\* A frame that found the text "Failed to draw!" got a non-null (falsy)
\* result and has assigned the status text.
C5_Witness ==
    /\ pc = "l59"
    /\ last.type = "frame"
    /\ last.text = "Failed to draw!"
    /\ result = FALSY
    /\ innerText = "All is well."

\* C6: when an invocation of drawOneFrame got null from game.draw, the
\* status text at the end of the invocation (and until the next one) is
\* "Failed to draw!", whatever it was before.
C6_FailureStatus ==
    (StatusAssigned /\ result = NULL) => innerText = "Failed to draw!"

\* A frame that found the text "All is well." got null and has assigned the
\* status text.
C6_Witness ==
    /\ pc = "l59"
    /\ last.type = "frame"
    /\ last.text = "All is well."
    /\ result = NULL
    /\ innerText = "Failed to draw!"

\* C7: drawOneFrame requests exactly one animation frame, as its last
\* statement and whatever draw returned: nothing is pending while the
\* invocation is at the draw call or the status update, and exactly one
\* callback is pending whenever the thread is idle, that is after startup
\* and after every completed invocation.
C7_OnePendingFrame ==
    /\ pc = "idle" => pending = 1
    /\ pc \in {"l54", "l59"} => pending = 0

\* An invocation that got null has completed and one callback is pending.
C7_Witness ==
    /\ pc = "idle"
    /\ last.type = "frame"
    /\ result = NULL
    /\ innerText = "Failed to draw!"
    /\ pending = 1
\* C8: the render loop never stops on its own.  When the host fires every
\* pending animation-frame callback, drawOneFrame is invoked again and
\* again without end, and the thread is never idle with no callback pending.
C8_LoopNeverStops ==
    /\ []<>(pc = "l54")
    /\ [](pc = "idle" => pending > 0)

\* drawOneFrame has been invoked again after an earlier invocation that
\* had assigned the status text.
C8_Witness ==
    /\ pc = "l54"
    /\ last.type = "frame"
    /\ last.text # ""

\* C9: a null result is handled inside the frame that got it and does not
\* stop or alter the loop.  That frame leaves InputState and the game
\* handle as it found them and a callback is pending once it has ended; the
\* frame after a failed one calls draw again and its status text depends on
\* its own result only, a non-null result replacing "Failed to draw!".
C9_NullIsNotFatal ==
    /\ (last.type = "frame" /\ result = NULL) =>
           /\ InputState = last.before
           /\ game = drawCall.this
           /\ nGames = 1
    /\ (pc = "idle" /\ result = NULL) =>
           /\ pending = 1
           /\ ENABLED DrawOneFrame_draw
    /\ (StatusAssigned /\ last.type = "frame"
            /\ last.text = "Failed to draw!") =>
           innerText = IF result = NULL THEN "Failed to draw!"
                       ELSE "All is well."

\* With a key held, the frame after a failed frame got a non-null result,
\* has replaced the failure text and has re-scheduled the loop.
C9_Witness ==
    /\ pc = "idle"
    /\ last.type = "frame"
    /\ last.text = "Failed to draw!"
    /\ last.before.right = TRUE
    /\ result = "result"
    /\ innerText = "All is well."
    /\ pending = 1

\* C10: one InputState record and one game handle exist for the program's
\* lifetime.  The record is allocated once, by the first statement, and
\* curInput refers to it ever after; make_game is called once, at line 50
\* of the module body, and every draw call is made on the handle it
\* returned.
C10_OneInputOneGame ==
    /\ Len(heap) = (IF pc = "l3" THEN 0 ELSE 1)
    /\ curInput = Len(heap)
    /\ nGames = (IF pc \in {"l3", "l10", "l26", "l43", "l46", "l50"}
                 THEN 0 ELSE 1)
    /\ game = nGames
    /\ drawCall # NoCall => drawCall.this = 1

\* After frames and key events of both kinds, there is still one record,
\* with a key held, and one handle, and draw has been called on it.
C10_Witness ==
    /\ pc = "idle"
    /\ last.type = "keyup"
    /\ InputState.down = TRUE
    /\ last.text = "Failed to draw!"
    /\ innerText = "Failed to draw!"
    /\ drawCall.this = game
    /\ Len(heap) = 1
    /\ nGames = 1

\* C11: key handlers and the frame callback exclude one another.  At most
\* one callback is on the call stack in any state, the thread is idle
\* exactly when the stack is empty, a callback is entered only from an empty
\* stack (so two invocations of drawOneFrame never overlap), and a key
\* handler starts and ends with the stack empty, as one step.
C11_MutualExclusion ==
    /\ [](Len(stack) <= 1)
    /\ [](pc = "idle" <=> stack = <<>>)
    /\ [][Len(stack') > Len(stack) => stack = <<>>]_vars
    /\ [][last'.type \in {"keydown", "keyup"} =>
              /\ stack = <<>> /\ stack' = <<>>
              /\ pc = "idle" /\ pc' = "idle"]_vars

\* An invocation of drawOneFrame is alone on the stack, after earlier
\* frames and after key events of both kinds.
C11_Witness ==
    /\ pc = "l54"
    /\ stack = <<"drawOneFrame">>
    /\ last.text # ""
    /\ lastEvent["ArrowUp"] = "keyup"
    /\ lastEvent["ArrowLeft"] = "keydown"

\* C12: InputState tracks the arrow keys that are held.  From the moment
\* the record exists, each field is true exactly when the most recent event
\* handled for its arrow key was a keydown; with no event handled for a key
\* (as at the start) its field is false.
C12_TracksHeldKeys ==
    curInput # 0 =>
        \A key \in ArrowKeys :
            InputState[FieldOf(key)] = (lastEvent[key] = "keydown")

\* Up and right are held, down has been released and left was never
\* touched.
C12_Witness ==
    /\ pc = "idle"
    /\ lastEvent = [key \in ArrowKeys |->
                       CASE key = "ArrowUp"    -> "keydown"
                         [] key = "ArrowDown"  -> "keyup"
                         [] key = "ArrowLeft"  -> None
                         [] key = "ArrowRight" -> "keydown"]
    /\ InputState = [up |-> TRUE, down |-> FALSE, left |-> FALSE,
                     right |-> TRUE]

\* C13: the status text is overwritten by every frame and is always one of
\* the two fixed strings once a frame has assigned it.  The text is empty,
\* "All is well." or "Failed to draw!"; it is empty exactly until the first
\* invocation of drawOneFrame assigns it; and from an invocation's status
\* update until the next draw call it is the string for the result of the
\* most recent draw call.  (Inside an invocation, between the draw call and
\* the status update, it is still the text the invocation found.)
C13_StatusFollowsLastDraw ==
    /\ innerText \in {"", "All is well.", "Failed to draw!"}
    /\ (innerText = "") <=> (result = None \/ (pc = "l54" /\ last.text = ""))
    /\ StatusAssigned =>
           innerText = IF result = NULL THEN "Failed to draw!"
                       ELSE "All is well."
    /\ pc = "l54" => innerText = last.text

\* A completed frame got null after a frame that had succeeded: the text
\* has gone from "All is well." to "Failed to draw!".
C13_Witness ==
    /\ pc = "idle"
    /\ last.type = "frame"
    /\ last.text = "All is well."
    /\ result = NULL
    /\ innerText = "Failed to draw!"

\* C14: the callbacks have disjoint effects.  No step of an invocation of
\* drawOneFrame changes a field of InputState or the record curInput refers
\* to, whatever draw returns; a keydown or keyup handler leaves the status
\* text as it is, makes no draw call and neither requests nor cancels an
\* animation frame.
C14_DisjointEffects ==
    [][/\ (pc \in {"l54", "l59"} \/ pc' \in {"l54", "l59"}) =>
              /\ heap' = heap
              /\ curInput' = curInput
       /\ last'.type \in {"keydown", "keyup"} =>
              /\ innerText' = innerText
              /\ result' = result
              /\ drawCall' = drawCall
              /\ pending' = pending]_vars

\* A keydown that changed InputState was handled after a frame that had
\* drawn with right not held: the text, the record of the draw call and the
\* pending callback are as that frame left them.
C14_Witness ==
    /\ pc = "idle"
    /\ Handled("keydown", "ArrowRight")
    /\ last.before.right = FALSE
    /\ InputState.right = TRUE
    /\ drawCall.args = <<TRUE, FALSE, FALSE, FALSE>>
    /\ innerText = "Failed to draw!"
    /\ last.text = innerText
    /\ pending = 1

\* C15: when pending animation frames eventually fire, an arrow key whose
\* keydown has been handled leads to a draw call that receives true for it,
\* unless its keyup is handled first; every draw call made while the key's
\* most recent event is a keydown receives true for it, and every draw call
\* made while it is not (the key was released again before the frame, or
\* never pressed) receives false.
C15_HeldKeyReachesDraw ==
    /\ \A key \in ArrowKeys :
           (lastEvent[key] = "keydown") ~>
               \/ /\ pc = "l54"
                  /\ lastEvent[key] = "keydown"
                  /\ drawCall.args[ArgOf(key)] = TRUE
               \/ lastEvent[key] = "keyup"
    /\ [](pc = "l54" =>
              \A key \in ArrowKeys :
                  drawCall.args[ArgOf(key)] = (lastEvent[key] = "keydown"))

\* A frame after the first calls draw while down is held and up has been
\* pressed and released: draw receives true for down and false for up.
C15_Witness ==
    /\ pc = "l54"
    /\ last.text # ""
    /\ lastEvent["ArrowDown"] = "keydown"
    /\ lastEvent["ArrowUp"] = "keyup"
    /\ drawCall.args[2] = TRUE
    /\ drawCall.args[1] = FALSE

\* The lines of the module body, as positions of the thread.
StartupLines == {"l3", "l10", "l26", "l43", "l46", "l50", "l61"}

\* C16: startup ordering.  When make_game is called, the status element
\* and the canvas with id "canvas" are already children of the body, in
\* that order; an animation frame is requested only once the game handle
\* exists; no draw call is made while the module body runs, and every draw
\* call is made from an animation-frame callback, on an existing handle.
C16_StartupOrder ==
    /\ (pc = "l50" \/ nGames > 0) =>
           body = <<[tag |-> "div", id |-> ""],
                    [tag |-> "canvas", id |-> "canvas"]>>
    /\ pending > 0 => game # 0
    /\ pc \in StartupLines =>
           /\ stack = <<"module">>
           /\ drawCall = NoCall
           /\ result = None
    /\ drawCall # NoCall => drawCall.this # 0
    /\ pc = "l54" => stack = <<"drawOneFrame">>

\* The first draw call has just been made: from the first animation-frame
\* callback, on the handle make_game returned, with both elements in the
\* body and the status text still empty.
C16_Witness ==
    /\ pc = "l54"
    /\ stack = <<"drawOneFrame">>
    /\ innerText = ""
    /\ drawCall.this = game
    /\ game = 1
    /\ Len(body) = 2
    /\ body[2].id = "canvas"

\* C17: key handling is idempotent.  A keydown handled right after a
\* keydown of the same key (as with auto-repeat) leaves InputState as the
\* first one left it, for every key and every InputState; likewise a keyup
\* right after a keyup of the same key; and a keyup of an arrow key whose
\* field is already false leaves InputState unchanged.
C17_KeyHandlingIdempotent ==
    [][/\ \A key \in Keys, type \in {"keydown", "keyup"} :
              (Handled(type, key) /\ last'.type = type /\ last'.key = key)
                  => InputState' = InputState
       /\ \A key \in ArrowKeys :
              (last'.type = "keyup" /\ last'.key = key
                   /\ InputState[FieldOf(key)] = FALSE)
                  => InputState' = InputState]_vars

\* A keydown of ArrowUp was handled while up was already true, with another
\* key held: InputState is as the handler found it.
C17_Witness ==
    /\ pc = "idle"
    /\ Handled("keydown", "ArrowUp")
    /\ lastEvent["ArrowUp"] = "keydown"
    /\ last.before.up = TRUE
    /\ last.before.left = TRUE
    /\ InputState = last.before
====
